---- MODULE Spec2Model ----
(***************************************************************************)
(* State-machine model of the MS5607 driver (src/ms5607/ms5607.py).        *)
(*                                                                         *)
(* Units.  Python floats are kept exact by scaling:                        *)
(*   - sleep durations are in microseconds (0.005 s = 5000),               *)
(*   - pressures are in hundredths of a millibar (PRESS / 100.0 is kept as *)
(*     the integer PRESS, 1013.25 mbar = 101325),                          *)
(*   - temperatures are in hundredths of a degree Celsius.                 *)
(* Python integers are unbounded; the model checker's are 32 bit, so the   *)
(* compensation arithmetic is carried out on sign-magnitude numbers with   *)
(* limbs of 15 bits (the Big* operators).                                  *)
(***************************************************************************)
EXTENDS Integers, Sequences, FiniteSets, TLC

(***************************************************************************)
(* Program constants                                                       *)
(***************************************************************************)
STANDARD_PRESSURE == 101325

DEFAULT_SENSOR_ADDR == 118

_CMD_RESET == 30

_CMD_READ_C1 == 162
_CMD_READ_C2 == 164
_CMD_READ_C3 == 166
_CMD_READ_C4 == 168
_CMD_READ_C5 == 170
_CMD_READ_C6 == 172

_CMD_SELECT_PRESSURE_OSR256 == 64
_CMD_SELECT_PRESSURE_OSR512 == 66
_CMD_SELECT_PRESSURE_OSR1024 == 68
_CMD_SELECT_PRESSURE_OSR2048 == 70
_CMD_SELECT_PRESSURE_OSR4096 == 72

_CMD_SELECT_TEMPERATURE_OSR256 == 80
_CMD_SELECT_TEMPERATURE_OSR512 == 82
_CMD_SELECT_TEMPERATURE_OSR1024 == 84
_CMD_SELECT_TEMPERATURE_OSR2048 == 86
_CMD_SELECT_TEMPERATURE_OSR4096 == 88

_CMD_READ_ADC == 0

\* Utility list of the supported oversampling rates.
OSRs == <<256, 512, 1024, 2048, 4096>>

\* The dict's key set.
OsrKeys == {256, 512, 1024, 2048, 4096}

\* dict lookups: applied only to keys of the dict (a missing key is the
\* KeyError the callers model).
_SELECT_PRESSURE_COMMANDS(osr) ==
    CASE osr = 256  -> _CMD_SELECT_PRESSURE_OSR256
      [] osr = 512  -> _CMD_SELECT_PRESSURE_OSR512
      [] osr = 1024 -> _CMD_SELECT_PRESSURE_OSR1024
      [] osr = 2048 -> _CMD_SELECT_PRESSURE_OSR2048
      [] osr = 4096 -> _CMD_SELECT_PRESSURE_OSR4096

_SELECT_TEMPERATURE_COMMANDS(osr) ==
    CASE osr = 256  -> _CMD_SELECT_TEMPERATURE_OSR256
      [] osr = 512  -> _CMD_SELECT_TEMPERATURE_OSR512
      [] osr = 1024 -> _CMD_SELECT_TEMPERATURE_OSR1024
      [] osr = 2048 -> _CMD_SELECT_TEMPERATURE_OSR2048
      [] osr = 4096 -> _CMD_SELECT_TEMPERATURE_OSR4096

\* Seconds in the source (0.60 / 1000, ...); microseconds here.
CONVERSION_TIMESMutFlat(osr) ==
    \* one settle time whatever the rate
    600

CONVERSION_TIMES(osr) ==
    CASE osr = 256  -> 600
      [] osr = 512  -> 1170
      [] osr = 1024 -> 2280
      [] osr = 2048 -> 4540
      [] osr = 4096 -> 9040

\* time.sleep(.005) of __init__ and time.sleep(0.001) of read_altitude.
RESET_SLEEP == 5000
SAMPLE_SLEEP == 1000

\* Default arguments.
DEFAULT_READ_PRESSURE_OSR == 4096
DEFAULT_READ_TEMPERATURE_OSR == 4096
DEFAULT_RAW_PRESSURE_OSR == 4096
DEFAULT_RAW_TEMPERATURE_OSR == 256

(***************************************************************************)
(* Unbounded integer arithmetic (Python int): sign and magnitude, the      *)
(* magnitude a little-endian sequence of limbs below Base with no leading  *)
(* zero limb, so that equal numbers are equal values.                      *)
(***************************************************************************)
LimbBits == 15
Base == 32768

RECURSIVE Pow2(_)
Pow2(k) == IF k = 0 THEN 1 ELSE 2 * Pow2(k - 1)

RECURSIVE MagNorm(_)
MagNorm(a) ==
    IF a = <<>> THEN <<>>
    ELSE IF a[Len(a)] = 0 THEN MagNorm(SubSeq(a, 1, Len(a) - 1))
    ELSE a

RECURSIVE MagOfNat(_)
MagOfNat(n) == IF n = 0 THEN <<>> ELSE <<n % Base>> \o MagOfNat(n \div Base)

RECURSIVE MagToNat(_)
MagToNat(a) == IF a = <<>> THEN 0 ELSE Head(a) + Base * MagToNat(Tail(a))

RECURSIVE MagCmpFrom(_, _, _)
MagCmpFrom(a, b, i) ==
    IF i = 0 THEN 0
    ELSE IF a[i] < b[i] THEN -1
    ELSE IF a[i] > b[i] THEN 1
    ELSE MagCmpFrom(a, b, i - 1)

MagCmp(a, b) ==
    IF Len(a) < Len(b) THEN -1
    ELSE IF Len(a) > Len(b) THEN 1
    ELSE MagCmpFrom(a, b, Len(a))

RECURSIVE MagAddC(_, _, _)
MagAddC(a, b, c) ==
    IF a = <<>> /\ b = <<>> THEN (IF c = 0 THEN <<>> ELSE <<c>>)
    ELSE LET x == IF a = <<>> THEN 0 ELSE Head(a)
             y == IF b = <<>> THEN 0 ELSE Head(b)
             s == x + y + c
             ra == IF a = <<>> THEN <<>> ELSE Tail(a)
             rb == IF b = <<>> THEN <<>> ELSE Tail(b)
         IN  <<s % Base>> \o MagAddC(ra, rb, s \div Base)

MagAdd(a, b) == MagAddC(a, b, 0)

\* a - b for a >= b.
RECURSIVE MagSubB(_, _, _)
MagSubB(a, b, br) ==
    IF a = <<>> THEN <<>>
    ELSE LET y == IF b = <<>> THEN 0 ELSE Head(b)
             d == Head(a) - y - br
             rb == IF b = <<>> THEN <<>> ELSE Tail(b)
         IN  IF d < 0 THEN <<d + Base>> \o MagSubB(Tail(a), rb, 1)
             ELSE <<d>> \o MagSubB(Tail(a), rb, 0)

MagSub(a, b) == MagNorm(MagSubB(a, b, 0))

\* a * d for one limb d.
RECURSIVE MagMulLimb(_, _, _)
MagMulLimb(a, d, c) ==
    IF a = <<>> THEN (IF c = 0 THEN <<>> ELSE <<c>>)
    ELSE LET p == Head(a) * d + c
         IN  <<p % Base>> \o MagMulLimb(Tail(a), d, p \div Base)

RECURSIVE MagMul(_, _)
MagMul(a, b) ==
    IF a = <<>> \/ b = <<>> THEN <<>>
    ELSE LET rest == MagMul(a, Tail(b))
             shifted == IF rest = <<>> THEN <<>> ELSE <<0>> \o rest
         IN  MagNorm(MagAdd(MagMulLimb(a, Head(b), 0), shifted))

\* Quotient and remainder of a by d, 0 < d <= Base, from the top limb down.
RECURSIVE MagDivLimb(_, _)
MagDivLimb(a, d) ==
    IF a = <<>> THEN [q |-> <<>>, r |-> 0]
    ELSE LET hi == MagDivLimb(Tail(a), d)
             cur == hi.r * Base + Head(a)
         IN  [q |-> MagNorm(<<cur \div d>> \o hi.q), r |-> cur % d]

BigZero == [neg |-> FALSE, mag |-> <<>>]

BigMake(neg, mag) == [neg |-> (neg /\ mag # <<>>), mag |-> mag]

BigOf(i) == IF i < 0 THEN BigMake(TRUE, MagOfNat(-i)) ELSE BigMake(FALSE, MagOfNat(i))

BigToInt(x) == IF x.neg THEN -MagToNat(x.mag) ELSE MagToNat(x.mag)

BigNeg(x) == BigMake(~x.neg, x.mag)

BigAdd(x, y) ==
    IF x.neg = y.neg THEN BigMake(x.neg, MagAdd(x.mag, y.mag))
    ELSE IF MagCmp(x.mag, y.mag) >= 0 THEN BigMake(x.neg, MagSub(x.mag, y.mag))
    ELSE BigMake(y.neg, MagSub(y.mag, x.mag))

BigSub(x, y) == BigAdd(x, BigNeg(y))

BigMul(x, y) == BigMake(x.neg # y.neg, MagMul(x.mag, y.mag))

\* x < y
BigLess(x, y) == BigSub(x, y).neg

\* Python's x // d for 0 < d <= Base: the floor, also of a negative x.
BigFloorDivLimb(x, d) ==
    LET qr == MagDivLimb(x.mag, d)
    IN  IF ~x.neg THEN BigMake(FALSE, qr.q)
        ELSE IF qr.r = 0 THEN BigMake(TRUE, qr.q)
        ELSE BigMake(TRUE, MagAdd(qr.q, <<1>>))

\* Python's x // 2 ** k.  floor(floor(x / a) / b) = floor(x / (a * b)).
RECURSIVE BigFloorDivPow2(_, _)
BigFloorDivPow2(x, k) ==
    IF k <= LimbBits THEN BigFloorDivLimb(x, Pow2(k))
    ELSE BigFloorDivPow2(BigFloorDivLimb(x, Base), k - LimbBits)

BigSquare(x) == BigMul(x, x)

(***************************************************************************)
(* convert_raw_readings: every local of the function, so that the          *)
(* intermediate terms can be inspected.  TEMP1 is TEMP as first assigned,  *)
(* TEMP the value after TEMP = TEMP - T2.  All fields are integers: with   *)
(* 16 bit coefficients and 24 bit readings the results fit in 32 bits,     *)
(* the products in between do not.                                         *)
(***************************************************************************)
SecondOrderMutPost(dT, TEMP) ==
    \* the correction chosen by TEMP after T2 is subtracted
    LET T2lo == BigFloorDivPow2(BigSquare(dT), 31)
        d20 == BigSub(TEMP, BigOf(2000))
        d15 == BigAdd(TEMP, BigOf(1500))
        OFF2lo == BigFloorDivPow2(BigMul(BigOf(61), BigSquare(d20)), 4)
        SENS2lo == BigMul(BigOf(2), BigSquare(d20))
    IN  IF BigLess(BigSub(TEMP, T2lo), BigOf(2000))
        THEN IF BigLess(BigSub(TEMP, T2lo), BigOf(-1500))
             THEN [T2 |-> T2lo,
                   OFF2 |-> BigAdd(OFF2lo, BigMul(BigOf(15), BigSquare(d15))),
                   SENS2 |-> BigAdd(SENS2lo, BigMul(BigOf(8), BigSquare(d15)))]
             ELSE [T2 |-> T2lo, OFF2 |-> OFF2lo, SENS2 |-> SENS2lo]
        ELSE [T2 |-> BigZero, OFF2 |-> BigZero, SENS2 |-> BigZero]

SecondOrder(dT, TEMP) ==
    IF BigLess(TEMP, BigOf(2000))
    THEN LET T2lo == BigFloorDivPow2(BigSquare(dT), 31)
             d20 == BigSub(TEMP, BigOf(2000))
             OFF2lo == BigFloorDivPow2(BigMul(BigOf(61), BigSquare(d20)), 4)
             SENS2lo == BigMul(BigOf(2), BigSquare(d20))
         IN  IF BigLess(TEMP, BigOf(-1500))
             THEN LET d15 == BigAdd(TEMP, BigOf(1500))
                  IN  [T2 |-> T2lo,
                       OFF2 |-> BigAdd(OFF2lo, BigMul(BigOf(15), BigSquare(d15))),
                       SENS2 |-> BigAdd(SENS2lo, BigMul(BigOf(8), BigSquare(d15)))]
             ELSE [T2 |-> T2lo, OFF2 |-> OFF2lo, SENS2 |-> SENS2lo]
    ELSE [T2 |-> BigZero, OFF2 |-> BigZero, SENS2 |-> BigZero]

\* Python's // : floor division.
FloorShiftMutRound(x, k) ==
    \* division rounding to the nearest integer
    BigFloorDivPow2(BigAdd(x, BigOf(Pow2(k - 1))), k)

FloorShift(x, k) == BigFloorDivPow2(x, k)

convert_raw_readings(coeffs, raw_pressure, raw_temperature) ==
    LET C1 == BigOf(coeffs[1])
        C2 == BigOf(coeffs[2])
        C3 == BigOf(coeffs[3])
        C4 == BigOf(coeffs[4])
        C5 == BigOf(coeffs[5])
        C6 == BigOf(coeffs[6])
        dT == BigSub(BigOf(raw_temperature), BigMul(C5, BigOf(Pow2(8))))
        TEMP1 == BigAdd(BigOf(2000), FloorShift(BigMul(dT, C6), 23))
        OFF1 == BigAdd(BigMul(C2, BigOf(Pow2(17))), FloorShift(BigMul(C4, dT), 6))
        SENS1 == BigAdd(BigMul(C1, BigOf(Pow2(16))), FloorShift(BigMul(C3, dT), 7))
        so == SecondOrder(dT, TEMP1)
        TEMP == BigSub(TEMP1, so.T2)
        OFF == BigSub(OFF1, so.OFF2)
        SENS == BigSub(SENS1, so.SENS2)
        PRESS == FloorShift(
                   BigSub(FloorShift(BigMul(BigOf(raw_pressure), SENS), 21), OFF), 15)
    IN  [dT |-> BigToInt(dT), TEMP1 |-> BigToInt(TEMP1),
         T2 |-> so.T2, OFF2 |-> so.OFF2, SENS2 |-> so.SENS2,
         TEMP |-> BigToInt(TEMP), PRESS |-> BigToInt(PRESS)]

\* The returned pair (pressure, temp), in hundredths.
ConvertResult(coeffs, raw_pressure, raw_temperature) ==
    LET r == convert_raw_readings(coeffs, raw_pressure, raw_temperature)
    IN  <<r.PRESS, r.TEMP>>

(***************************************************************************)
(* convert_altitude: the altitude is a real power of the pressure ratio,   *)
(* 44330.76923 * (1 - (local_pressure / sea_level_pressure) ** 0.190264).  *)
(* It is kept as the exact arguments of that expression: the local         *)
(* pressure as the fraction num / den and the sea level pressure.          *)
(***************************************************************************)
convert_altitude(num, den, sea_level_pressure) == <<num, den, sea_level_pressure>>

(***************************************************************************)
(* Bounds and inputs                                                       *)
(***************************************************************************)
\* Largest samples argument of read_altitude that is explored.
MaxSamples == 2

\* A keyword argument left out of the call.
NoArg == 0

Threads == {"t1", "t2"}

\* The thread that constructs the driver.
Owner == "t1"

\* Factory coefficients of the datasheet example, and a second device.
GoldenCoeffs == <<46372, 43981, 29059, 27842, 31553, 28165>>
OtherCoeffs == <<40127, 36924, 23317, 23282, 33464, 28312>>

RomCmds == <<_CMD_READ_C1, _CMD_READ_C2, _CMD_READ_C3,
             _CMD_READ_C4, _CMD_READ_C5, _CMD_READ_C6>>

RomCmdSet == {RomCmds[i] : i \in 1..6}

\* Big-endian bytes of v, as the device sends them.
RECURSIVE BytesOf(_, _)
BytesOf(v, size) ==
    IF size = 0 THEN <<>>
    ELSE Append(BytesOf(v \div 256, size - 1), v % 256)

\* The ROM of a device holding coefficients c: read command -> 2 bytes.
RomImage(c) == [cmd \in RomCmdSet |->
                  BytesOf(c[CHOOSE i \in 1..6 : RomCmds[i] = cmd], 2)]

RomImages == {RomImage(GoldenCoeffs), RomImage(OtherCoeffs)}

\* What the ADC register may hold when it is read.
AdcBytes == {BytesOf(6465444, 3), BytesOf(8077636, 3)}

\* A bus transaction succeeds or raises IOError.
BusOutcomes == {"ok", "IOError"}

AddressArgs == {NoArg, 119}
OsrArgs == OsrKeys \cup {999, NoArg}
ReadOsrArgs == {<<NoArg, NoArg>>, <<512, NoArg>>, <<4096, 256>>,
                <<4096, 999>>, <<999, 4096>>}
SeaLevelArgs == {NoArg, 102340}
SamplesArgs == 0..MaxSamples
ConvPressures == {6465444, 16777215}
ConvTemperatures == {8077636, 8077568, 8077567, 7035433, 7035135, 7035134, 0}

Default(arg, default) == IF arg = NoArg THEN default ELSE arg

(***************************************************************************)
(* State                                                                   *)
(***************************************************************************)
VARIABLES
    phase,      \* "new", "constructing", "ready" or "failed": __init__'s progress
    address,    \* self.address
    coeffs,     \* self._coeffs
    rom,        \* the device's coefficient ROM
    wire,       \* the last transaction on the bus and the thread that issued it
    romReads,   \* coefficient reads issued on the bus so far
    th          \* per thread: the call in progress or last finished

vars == <<phase, address, coeffs, rom, wire, romReads, th>>

NoConv == [dT |-> 0, TEMP1 |-> 0, T2 |-> BigZero, OFF2 |-> BigZero,
           SENS2 |-> BigZero, TEMP |-> 0, PRESS |-> 0]

\* A thread entering operation op with arguments args.
Frame(op, args, pc) ==
    [op |-> op, args |-> args, pc |-> pc, status |-> "running",
     posr |-> 0, tosr |-> 0, samples |-> 0, slp |-> 0,
     n |-> 0, accum |-> 0, rawp |-> 0, rawt |-> 0,
     partial |-> <<>>, cycles |-> <<>>, conv |-> NoConv,
     ret |-> <<>>, busError |-> FALSE, log |-> <<>>]

NoCall == [Frame("none", <<>>, "done") EXCEPT !.status = "idle"]

NoWire == [by |-> "none", ev |-> <<"none", 0, 0, 0>>]

(***************************************************************************)
(* Bus and clock events.  A thread's log holds, in order, what its current *)
(* call has issued.                                                        *)
(***************************************************************************)
\* self.bus.write_byte(self.address, cmd)
_write(cmd) == <<"write", address, cmd, 0>>

\* self.bus.read_i2c_block_data(self.address, cmd, size)
ReadBlock(cmd, size) == <<"read", address, cmd, size>>

\* time.sleep
Sleep(usec) == <<"sleep", 0, 0, usec>>

\* _read: the bytes shifted into one integer, most significant first.
RECURSIVE _read(_, _)
_read(bytes, size) ==
    IF bytes = <<>> THEN 0
    ELSE Head(bytes) * Pow2((size - 1) * 8) + _read(Tail(bytes), size - 1)

Issue(r, ev) == [r EXCEPT !.log = Append(@, ev)]

\* An exception leaves the call: no value is returned.
Raise(r, exc) == [r EXCEPT !.status = exc, !.pc = "done"]

\* The bus raised on transaction ev.
BusFail(r, ev) == Raise([Issue(r, ev) EXCEPT !.busError = TRUE], "IOError")

Return(r, value) == [r EXCEPT !.status = "ok", !.pc = "done", !.ret = value]

CountRom(ev) ==
    IF ev[1] = "read" /\ ev[3] \in RomCmdSet THEN romReads + 1 ELSE romReads

\* No call in progress and no result held: the thread may call the driver.
Idle(t) == th[t].op = "none"

\* A thread whose last call has ended and whose result has been dropped.
Released == [NoCall EXCEPT !.status = "released"]

(***************************************************************************)
(* __init__                                                                *)
(***************************************************************************)
\* self.address = address; self._write(_CMD_RESET)
Construct(addressArg) ==
    /\ phase = "new"
    /\ address' = Default(addressArg, DEFAULT_SENSOR_ADDR)
    /\ LET ev == <<"write", address', _CMD_RESET, 0>>
           r == Frame("__init__", <<addressArg>>, "init_sleep")
       IN  /\ wire' = [by |-> Owner, ev |-> ev]
           /\ \E outcome \in BusOutcomes :
                IF outcome = "ok"
                THEN /\ th' = [th EXCEPT ![Owner] = Issue(r, ev)]
                     /\ phase' = "constructing"
                ELSE /\ th' = [th EXCEPT ![Owner] = BusFail(r, ev)]
                     /\ phase' = "failed"
    /\ UNCHANGED <<coeffs, rom, romReads>>

\* time.sleep(.005)
ResetWait ==
    /\ phase = "constructing"
    /\ th[Owner].pc = "init_sleep"
    /\ th' = [th EXCEPT ![Owner] = [Issue(@, Sleep(RESET_SLEEP)) EXCEPT !.pc = "init_rom"]]
    /\ UNCHANGED <<phase, address, coeffs, rom, wire, romReads>>

\* _read_calibration_coeffs, one self._read(_CMD_READ_Ci, 2) per step; the
\* sixth is followed by the assignment to self._coeffs.
ReadCoeffMutReversed ==
    /\ phase = "constructing"
    /\ th[Owner].pc = "init_rom"
    /\ LET r == th[Owner]
           i == Len(r.partial) + 1
           ev == ReadBlock(RomCmds[7 - i], 2)
       IN  /\ wire' = [by |-> Owner, ev |-> ev]
           /\ romReads' = CountRom(ev)
           /\ \E outcome \in BusOutcomes :
                IF outcome = "IOError"
                THEN /\ th' = [th EXCEPT ![Owner] = BusFail(r, ev)]
                     /\ phase' = "failed"
                     /\ UNCHANGED coeffs
                ELSE LET got == Append(r.partial, _read(rom[RomCmds[7 - i]], 2))
                         r2 == [Issue(r, ev) EXCEPT !.partial = got]
                     IN  IF i < 6
                         THEN /\ th' = [th EXCEPT ![Owner] = r2]
                              /\ UNCHANGED <<phase, coeffs>>
                         ELSE /\ th' = [th EXCEPT ![Owner] = Return(r2, <<>>)]
                              /\ coeffs' = got
                              /\ phase' = "ready"
    /\ UNCHANGED <<address, rom>>

ReadCoeff ==
    /\ phase = "constructing"
    /\ th[Owner].pc = "init_rom"
    /\ LET r == th[Owner]
           i == Len(r.partial) + 1
           ev == ReadBlock(RomCmds[i], 2)
       IN  /\ wire' = [by |-> Owner, ev |-> ev]
           /\ romReads' = CountRom(ev)
           /\ \E outcome \in BusOutcomes :
                IF outcome = "IOError"
                THEN /\ th' = [th EXCEPT ![Owner] = BusFail(r, ev)]
                     /\ phase' = "failed"
                     /\ UNCHANGED coeffs
                ELSE LET got == Append(r.partial, _read(rom[RomCmds[i]], 2))
                         r2 == [Issue(r, ev) EXCEPT !.partial = got]
                     IN  IF i < 6
                         THEN /\ th' = [th EXCEPT ![Owner] = r2]
                              /\ UNCHANGED <<phase, coeffs>>
                         ELSE /\ th' = [th EXCEPT ![Owner] = Return(r2, <<>>)]
                              /\ coeffs' = got
                              /\ phase' = "ready"
    /\ UNCHANGED <<address, rom>>

(***************************************************************************)
(* Calls                                                                   *)
(***************************************************************************)
Driver == <<phase, address, coeffs, rom>>

Call_read_raw_pressure(t, osr) ==
    /\ phase = "ready"
    /\ Idle(t)
    /\ th' = [th EXCEPT ![t] =
                [Frame("read_raw_pressure", <<osr>>, "p_write")
                   EXCEPT !.posr = Default(osr, DEFAULT_RAW_PRESSURE_OSR)]]
    /\ UNCHANGED <<Driver, wire, romReads>>

Call_read_raw_temperature(t, osr) ==
    /\ phase = "ready"
    /\ Idle(t)
    /\ th' = [th EXCEPT ![t] =
                [Frame("read_raw_temperature", <<osr>>, "t_write")
                   EXCEPT !.tosr = Default(osr, DEFAULT_RAW_TEMPERATURE_OSR)]]
    /\ UNCHANGED <<Driver, wire, romReads>>

\* read passes both rates on by keyword, so the raw readers' own defaults
\* are not used.
Call_read(t, pressure_osr, temperature_osr) ==
    /\ phase = "ready"
    /\ Idle(t)
    /\ th' = [th EXCEPT ![t] =
                [Frame("read", <<pressure_osr, temperature_osr>>, "p_write")
                   EXCEPT !.posr = Default(pressure_osr, DEFAULT_READ_PRESSURE_OSR),
                          !.tosr = Default(temperature_osr, DEFAULT_READ_TEMPERATURE_OSR)]]
    /\ UNCHANGED <<Driver, wire, romReads>>

Call_read_altitude(t, sea_level_pressure, samples, pressure_osr, temperature_osr) ==
    /\ phase = "ready"
    /\ Idle(t)
    /\ th' = [th EXCEPT ![t] =
                [Frame("read_altitude",
                       <<sea_level_pressure, samples, pressure_osr, temperature_osr>>,
                       "loop")
                   EXCEPT !.slp = Default(sea_level_pressure, STANDARD_PRESSURE),
                          !.samples = samples,
                          !.posr = Default(pressure_osr, DEFAULT_READ_PRESSURE_OSR),
                          !.tosr = Default(temperature_osr, DEFAULT_READ_TEMPERATURE_OSR)]]
    /\ UNCHANGED <<Driver, wire, romReads>>

\* convert_raw_readings called directly: no bus access, one step.
Call_convert_raw_readingsMutStore(t, raw_pressure, raw_temperature) ==
    /\ phase = "ready"
    /\ Idle(t)
    /\ LET c == convert_raw_readings(coeffs, raw_pressure, raw_temperature)
       IN  th' = [th EXCEPT ![t] =
                    Return([Frame("convert_raw_readings",
                                  <<raw_pressure, raw_temperature>>, "done")
                              EXCEPT !.conv = c],
                           <<c.PRESS, c.TEMP>>)]
    /\ coeffs' = [coeffs EXCEPT ![5] = 0]
    /\ UNCHANGED <<phase, address, rom, wire, romReads>>

Call_convert_raw_readings(t, raw_pressure, raw_temperature) ==
    /\ phase = "ready"
    /\ Idle(t)
    /\ LET c == convert_raw_readings(coeffs, raw_pressure, raw_temperature)
       IN  th' = [th EXCEPT ![t] =
                    Return([Frame("convert_raw_readings",
                                  <<raw_pressure, raw_temperature>>, "done")
                              EXCEPT !.conv = c],
                           <<c.PRESS, c.TEMP>>)]
    /\ UNCHANGED <<Driver, wire, romReads>>

(***************************************************************************)
(* Steps of read_raw_pressure / read_raw_temperature, also when run inside *)
(* read and read_altitude.  pc "p_*" is the pressure conversion, "t_*" the *)
(* temperature conversion.                                                 *)
(***************************************************************************)
Channel(r) == IF r.pc \in {"p_write", "p_sleep", "p_adc"} THEN "pressure" ELSE "temperature"

Osr(r) == IF Channel(r) = "pressure" THEN r.posr ELSE r.tosr

InWindow(r) == r.pc \in {"p_sleep", "p_adc", "t_sleep", "t_adc"}

\* self._write(_SELECT_*_COMMANDS[osr]): the lookup raises KeyError before
\* anything is written.
StartConversion(t) ==
    /\ th[t].pc \in {"p_write", "t_write"}
    /\ LET r == th[t]
           osr == Osr(r)
       IN  IF osr \notin OsrKeys
           THEN /\ th' = [th EXCEPT ![t] = Raise(r, "KeyError")]
                /\ UNCHANGED wire
           ELSE LET cmd == IF Channel(r) = "pressure"
                           THEN _SELECT_PRESSURE_COMMANDS(osr)
                           ELSE _SELECT_TEMPERATURE_COMMANDS(osr)
                    ev == _write(cmd)
                    next == IF Channel(r) = "pressure" THEN "p_sleep" ELSE "t_sleep"
                IN  /\ wire' = [by |-> t, ev |-> ev]
                    /\ \E outcome \in BusOutcomes :
                         th' = [th EXCEPT ![t] =
                                  IF outcome = "ok"
                                  THEN [Issue(r, ev) EXCEPT !.pc = next]
                                  ELSE BusFail(r, ev)]
    /\ UNCHANGED <<Driver, romReads>>

\* time.sleep(CONVERSION_TIMES[osr])
SettleMutPoll(t) ==
    \* the wait done as a poll of the ADC register
    /\ th[t].pc \in {"p_sleep", "t_sleep"}
    /\ LET r == th[t]
           next == IF Channel(r) = "pressure" THEN "p_adc" ELSE "t_adc"
       IN  /\ th' = [th EXCEPT ![t] =
                       [Issue(r, Sleep(CONVERSION_TIMES(Osr(r)))) EXCEPT !.pc = next]]
           /\ wire' = [by |-> t, ev |-> ReadBlock(_CMD_READ_ADC, 3)]
    /\ UNCHANGED <<Driver, romReads>>

Settle(t) ==
    /\ th[t].pc \in {"p_sleep", "t_sleep"}
    /\ LET r == th[t]
           next == IF Channel(r) = "pressure" THEN "p_adc" ELSE "t_adc"
       IN  th' = [th EXCEPT ![t] =
                    [Issue(r, Sleep(CONVERSION_TIMES(Osr(r)))) EXCEPT !.pc = next]]
    /\ UNCHANGED <<Driver, wire, romReads>>

\* What the caller does with the value self._read(_CMD_READ_ADC, 3) returned.
AfterAdc(r, value) ==
    CASE r.op = "read_raw_pressure" \/ r.op = "read_raw_temperature"
           -> Return(r, <<value>>)
      [] OTHER
           -> IF Channel(r) = "pressure"
              THEN [r EXCEPT !.rawp = value, !.pc = "t_write"]
              ELSE [r EXCEPT !.rawt = value, !.pc = "convert"]

\* return self._read(_CMD_READ_ADC, 3)
ReadADCMutSentinel(t) ==
    \* a failed read taken as the value 0
    /\ th[t].pc \in {"p_adc", "t_adc"}
    /\ LET r == th[t]
           ev == ReadBlock(_CMD_READ_ADC, 3)
       IN  /\ wire' = [by |-> t, ev |-> ev]
           /\ romReads' = CountRom(ev)
           /\ \E outcome \in BusOutcomes :
                IF outcome = "IOError"
                THEN th' = [th EXCEPT ![t] =
                              AfterAdc([Issue(r, ev) EXCEPT !.busError = TRUE], 0)]
                ELSE \E bytes \in AdcBytes :
                       th' = [th EXCEPT ![t] = AfterAdc(Issue(r, ev), _read(bytes, 3))]
    /\ UNCHANGED Driver

ReadADC(t) ==
    /\ th[t].pc \in {"p_adc", "t_adc"}
    /\ LET r == th[t]
           ev == ReadBlock(_CMD_READ_ADC, 3)
       IN  /\ wire' = [by |-> t, ev |-> ev]
           /\ romReads' = CountRom(ev)
           /\ \E outcome \in BusOutcomes :
                IF outcome = "IOError"
                THEN th' = [th EXCEPT ![t] = BusFail(r, ev)]
                ELSE \E bytes \in AdcBytes :
                       th' = [th EXCEPT ![t] = AfterAdc(Issue(r, ev), _read(bytes, 3))]
    /\ UNCHANGED Driver

(***************************************************************************)
(* read and read_altitude                                                  *)
(***************************************************************************)
\* press, temp = self.read(...); accum += press
AccumulateMutTemp(accum, sample) == accum + sample[2]

Accumulate(accum, sample) == accum + sample[1]

\* return self.convert_raw_readings(raw_pressure, raw_temperature), and in
\* read_altitude the rest of the loop body.
Convert(t) ==
    /\ th[t].pc = "convert"
    /\ LET r == th[t]
           c == convert_raw_readings(coeffs, r.rawp, r.rawt)
           sample == <<c.PRESS, c.TEMP>>
       IN  th' = [th EXCEPT ![t] =
                    IF r.op = "read"
                    THEN Return([r EXCEPT !.conv = c], sample)
                    ELSE [r EXCEPT !.conv = c,
                                   !.accum = Accumulate(r.accum, sample),
                                   !.cycles = Append(@, <<r.rawp, r.rawt>>),
                                   !.n = @ + 1,
                                   !.pc = "loop"]]
    /\ UNCHANGED <<Driver, wire, romReads>>

\* for n in range(0, samples): time.sleep(0.001) ...; after the loop
\* avg = accum / samples; return convert_altitude(avg, sea_level_pressure)
LoopHead(t) ==
    /\ th[t].pc = "loop"
    /\ LET r == th[t]
       IN  th' = [th EXCEPT ![t] =
                    IF r.n < r.samples
                    THEN [Issue(r, Sleep(SAMPLE_SLEEP)) EXCEPT !.pc = "p_write"]
                    ELSE IF r.samples = 0
                    THEN Raise(r, "ZeroDivisionError")
                    ELSE Return(r, convert_altitude(r.accum, r.samples, r.slp))]
    /\ UNCHANGED <<Driver, wire, romReads>>

(***************************************************************************)
(* The caller                                                              *)
(***************************************************************************)
\* The caller is done with what its call returned or raised (the example
\* scripts print it and loop) and is free to call again.
Release(t) ==
    /\ th[t].op # "none"
    /\ th[t].pc = "done"
    /\ phase # "failed"
    /\ th' = [th EXCEPT ![t] = Released]
    /\ UNCHANGED <<Driver, wire, romReads>>

(***************************************************************************)
(* Specifications                                                          *)
(***************************************************************************)
\* One thread constructs the driver and then calls it.
Init ==
    /\ phase = "new"
    /\ address = NoArg
    /\ coeffs = <<>>
    /\ rom \in RomImages
    /\ wire = NoWire
    /\ romReads = 0
    /\ th = [t \in {Owner} |-> NoCall]

Next ==
    \/ \E a \in AddressArgs : Construct(a)
    \/ ResetWait
    \/ ReadCoeff
    \/ \E t \in DOMAIN th, osr \in OsrArgs : Call_read_raw_pressure(t, osr)
    \/ \E t \in DOMAIN th, osr \in OsrArgs : Call_read_raw_temperature(t, osr)
    \/ \E t \in DOMAIN th, a \in ReadOsrArgs : Call_read(t, a[1], a[2])
    \/ \E t \in DOMAIN th, slp \in SeaLevelArgs, k \in SamplesArgs, a \in ReadOsrArgs :
         Call_read_altitude(t, slp, k, a[1], a[2])
    \/ \E t \in DOMAIN th, rp \in ConvPressures, rt \in ConvTemperatures :
         Call_convert_raw_readings(t, rp, rt)
    \/ \E t \in DOMAIN th : StartConversion(t)
    \/ \E t \in DOMAIN th : Settle(t)
    \/ \E t \in DOMAIN th : ReadADC(t)
    \/ \E t \in DOMAIN th : Convert(t)
    \/ \E t \in DOMAIN th : LoopHead(t)
    \/ \E t \in DOMAIN th : Release(t)

Spec == Init /\ [][Next]_vars

\* Two threads share a driver already constructed on the datasheet's device.
InitShared ==
    /\ phase = "ready"
    /\ address = DEFAULT_SENSOR_ADDR
    /\ coeffs = GoldenCoeffs
    /\ rom = RomImage(GoldenCoeffs)
    /\ wire = [by |-> Owner, ev |-> <<"read", DEFAULT_SENSOR_ADDR, _CMD_READ_C6, 2>>]
    /\ romReads = 6
    /\ th = [t \in Threads |-> NoCall]

NextShared ==
    \/ \E t \in DOMAIN th, osr \in OsrArgs : Call_read_raw_pressure(t, osr)
    \/ \E t \in DOMAIN th, osr \in OsrArgs : Call_read_raw_temperature(t, osr)
    \/ \E t \in DOMAIN th, a \in ReadOsrArgs : Call_read(t, a[1], a[2])
    \/ \E t \in DOMAIN th : StartConversion(t)
    \/ \E t \in DOMAIN th : Settle(t)
    \/ \E t \in DOMAIN th : ReadADC(t)
    \/ \E t \in DOMAIN th : Convert(t)
    \/ \E t \in DOMAIN th : Release(t)

SpecShared == InitShared /\ [][NextShared]_vars

(***************************************************************************)
(* Properties                                                              *)
(***************************************************************************)
IsPrefix(a, b) == Len(a) <= Len(b) /\ a = SubSeq(b, 1, Len(a))

IsBus(ev) == ev[1] \in {"write", "read"}

\* The bus transactions of a log, the sleeps left out.
BusOnly(log) == SelectSeq(log, IsBus)

RECURSIVE Repeat(_, _)
Repeat(seq, k) == IF k = 0 THEN <<>> ELSE seq \o Repeat(seq, k - 1)

RawOps == {"read_raw_pressure", "read_raw_temperature"}

\* C1: with the datasheet's coefficients, convert_raw_readings(6465444,
\* 8077636) returns PRESS = 110002 and TEMP = 2000 (1100.02 mbar, 20.00 C),
\* all divisions being floor divisions.
C1_GoldenVector ==
    \A t \in DOMAIN th :
       (/\ th[t].op = "convert_raw_readings"
        /\ th[t].args = <<6465444, 8077636>>
        /\ coeffs = <<46372, 43981, 29059, 27842, 31553, 28165>>)
       => (th[t].status = "ok" /\ th[t].ret = <<110002, 2000>>)

C1_Witness ==
    \E t \in DOMAIN th :
       /\ th[t].op = "convert_raw_readings"
       /\ th[t].args = <<6465444, 8077636>>
       /\ coeffs = <<46372, 43981, 29059, 27842, 31553, 28165>>
       /\ th[t].ret = <<110002, 2000>>

\* A rate outside the five supported ones was passed to the call of r.
BadRateSupplied(r) ==
    \/ r.op = "read_raw_pressure" /\ r.posr \notin {256, 512, 1024, 2048, 4096}
    \/ r.op = "read_raw_temperature" /\ r.tosr \notin {256, 512, 1024, 2048, 4096}
    \/ /\ r.op \in {"read", "read_altitude"}
       /\ \/ r.posr \notin {256, 512, 1024, 2048, 4096}
          \/ r.tosr \notin {256, 512, 1024, 2048, 4096}

\* C2: an operation given an unsupported oversampling rate never returns a
\* value and has issued no bus transaction, whichever of its rates is the
\* unsupported one.
C2_BadOsrFailsBeforeBus ==
    \A t \in DOMAIN th :
       BadRateSupplied(th[t])
       => (th[t].status # "ok" /\ BusOnly(th[t].log) = <<>>)

C3Command(op, osr) ==
    IF op = "read_raw_pressure"
    THEN CASE osr = 256 -> 64 [] osr = 512 -> 66 [] osr = 1024 -> 68
           [] osr = 2048 -> 70 [] osr = 4096 -> 72
    ELSE CASE osr = 256 -> 80 [] osr = 512 -> 82 [] osr = 1024 -> 84
           [] osr = 2048 -> 86 [] osr = 4096 -> 88

C3Settle(osr) ==
    CASE osr = 256 -> 600 [] osr = 512 -> 1170 [] osr = 1024 -> 2280
      [] osr = 2048 -> 4540 [] osr = 4096 -> 9040

C3Sequence(op, osr) ==
    << <<"write", address, C3Command(op, osr), 0>>,
       <<"sleep", 0, 0, C3Settle(osr)>>,
       <<"read", address, 0, 3>> >>

\* C3: a raw read with a supported rate issues the conversion command of
\* its channel and rate, waits that rate's settle time, then reads 3 bytes
\* of ADC command 0x00, in this order and nothing else: what it has issued
\* is at every moment a prefix of that sequence, all of it when the read
\* returns, and cut short only by a bus error on its last transaction.
C3_RawReadSequence ==
    \A t \in DOMAIN th :
       LET r == th[t]
           osr == IF r.op = "read_raw_pressure" THEN r.posr ELSE r.tosr
           seq == C3Sequence(r.op, osr)
       IN  (r.op \in RawOps /\ osr \in {256, 512, 1024, 2048, 4096})
           => /\ IsPrefix(r.log, seq)
              /\ r.status = "ok" => (r.log = seq /\ Len(r.ret) = 1)
              /\ r.pc \in {"p_adc", "t_adc"} => Len(r.log) = 2
              /\ Len(r.log) = 3 => r.pc = "done"
              /\ r.status = "IOError" => (r.busError /\ Len(r.log) \in {1, 3})
              /\ r.status \in {"running", "ok", "IOError"}

C3_Witness ==
    \E t \in DOMAIN th :
       /\ th[t].op = "read_raw_temperature"
       /\ th[t].args = <<1024>>
       /\ th[t].status = "ok"
       /\ th[t].log = << <<"write", address, 84, 0>>, <<"sleep", 0, 0, 2280>>,
                         <<"read", address, 0, 3>> >>

C4Sequence ==
    << <<"write", address, 30, 0>>, <<"sleep", 0, 0, 5000>>,
       <<"read", address, 162, 2>>, <<"read", address, 164, 2>>,
       <<"read", address, 166, 2>>, <<"read", address, 168, 2>>,
       <<"read", address, 170, 2>>, <<"read", address, 172, 2>> >>

C4RomOrder == <<162, 164, 166, 168, 170, 172>>

\* C4: construction issues the reset 0x1E, a 5 ms sleep, then the six
\* 2-byte reads 0xA2 .. 0xAC whose values become C1 .. C6 in this order,
\* before anything else is on the bus; the coefficients are read once, and
\* no later operation issues a reset or a coefficient read.
C4_ConstructionSequence ==
    /\ phase = "new" => (wire = NoWire /\ romReads = 0)
    /\ th[Owner].op = "__init__" => IsPrefix(th[Owner].log, C4Sequence)
    /\ (phase = "ready" /\ th[Owner].op = "__init__") => th[Owner].log = C4Sequence
    /\ phase = "ready"
         => /\ romReads = 6
            /\ Len(coeffs) = 6
            /\ \A i \in 1..6 : BytesOf(coeffs[i], 2) = rom[C4RomOrder[i]]
    /\ phase # "ready" => coeffs = <<>>
    /\ \A t \in DOMAIN th :
          th[t].op \notin {"__init__", "none"}
          => \A k \in 1..Len(th[t].log) :
                IsBus(th[t].log[k])
                => th[t].log[k][3] \notin {30, 162, 164, 166, 168, 170, 172}

C4_Witness ==
    /\ phase = "ready"
    /\ romReads = 6
    /\ coeffs = <<40127, 36924, 23317, 23282, 33464, 28312>>
    /\ th[Owner].op = "read"
    /\ th[Owner].status = "ok"

\* The conversion command whose result r is waiting for.
PendingWrite(r) ==
    IF r.pc \in {"p_sleep", "t_sleep"} THEN r.log[Len(r.log)] ELSE r.log[Len(r.log) - 1]

\* C5 as stated: from the write of a conversion command to the ADC read
\* that belongs to it, that write stays the last transaction on the bus,
\* whichever threads call the instance.
C5_NoInterleaving ==
    \A t \in DOMAIN th :
       InWindow(th[t]) => wire = [by |-> t, ev |-> PendingWrite(th[t])]

\* C5 as amended: the same, for a thread that is the only one ever to have
\* called the instance.  The driver takes no lock.
C5_SingleCallerNoInterleaving ==
    \A t \in DOMAIN th :
       (InWindow(th[t]) /\ \A u \in DOMAIN th \ {t} : th[u].status = "idle")
       => wire = [by |-> t, ev |-> PendingWrite(th[t])]

C5_Witness ==
    \E t \in DOMAIN th :
       /\ th[t].op = "read"
       /\ th[t].pc = "t_adc"
       /\ \A u \in DOMAIN th \ {t} : th[u].status = "idle"
       /\ wire = [by |-> t, ev |-> <<"write", address, 88, 0>>]

\* C6: once the driver is constructed, no step of any operation changes
\* the coefficients, the address or the driver's being ready.
C6_CoefficientsFrozen ==
    [][phase = "ready" => (coeffs' = coeffs /\ address' = address /\ phase' = "ready")]_vars

C6_Witness ==
    /\ phase = "ready"
    /\ coeffs = <<46372, 43981, 29059, 27842, 31553, 28165>>
    /\ \E t \in DOMAIN th :
          /\ th[t].op = "read_altitude"
          /\ th[t].status = "IOError"
          /\ th[t].n = 1

\* C7: when the bus fails during read_altitude, in whichever cycle and on
\* a write or a read, the call ends with the error and without a value,
\* the failed transaction being the last thing it issued.
C7_AltitudeAbortsOnBusError ==
    \A t \in DOMAIN th :
       LET r == th[t]
       IN  (r.op = "read_altitude" /\ r.busError)
           => /\ r.status = "IOError"
              /\ r.pc = "done"
              /\ r.ret = <<>>
              /\ IsBus(r.log[Len(r.log)])
              /\ Len(r.cycles) < r.samples

C7_Witness ==
    \E t \in DOMAIN th :
       /\ th[t].op = "read_altitude"
       /\ th[t].busError
       /\ th[t].status = "IOError"
       /\ Len(th[t].cycles) = 1
       /\ th[t].accum # 0
       /\ th[t].ret = <<>>

\* One cycle of read_altitude for rates p and t.
C8Cycle(p, t) ==
    << Sleep(1000),
       _write(_SELECT_PRESSURE_COMMANDS(p)), Sleep(CONVERSION_TIMES(p)),
       ReadBlock(0, 3),
       _write(_SELECT_TEMPERATURE_COMMANDS(t)), Sleep(CONVERSION_TIMES(t)),
       ReadBlock(0, 3) >>

RECURSIVE C8SumOfPressures(_)
C8SumOfPressures(cycles) ==
    IF cycles = <<>> THEN 0
    ELSE ConvertResult(coeffs, Head(cycles)[1], Head(cycles)[2])[1]
         + C8SumOfPressures(Tail(cycles))

\* C8: read_altitude with samples = n >= 1 runs n cycles of pressure
\* conversion, temperature conversion and compensation, and hands the
\* altitude formula the sum of the n compensated pressures over n.
C8_AltitudeAveragesPressures ==
    \A t \in DOMAIN th :
       LET r == th[t]
       IN  (r.op = "read_altitude" /\ r.posr \in OsrKeys /\ r.tosr \in OsrKeys)
           => /\ IsPrefix(r.log, Repeat(C8Cycle(r.posr, r.tosr), r.samples))
              /\ Len(r.cycles) = r.n
              /\ r.accum = C8SumOfPressures(r.cycles)
              /\ r.status = "ok"
                   => /\ r.samples >= 1
                      /\ r.n = r.samples
                      /\ r.log = Repeat(C8Cycle(r.posr, r.tosr), r.samples)
                      /\ r.ret = <<C8SumOfPressures(r.cycles), r.samples, r.slp>>

C8_Witness ==
    \E t \in DOMAIN th :
       /\ th[t].op = "read_altitude"
       /\ th[t].status = "ok"
       /\ th[t].samples = 2
       /\ th[t].cycles[1] # th[t].cycles[2]
       /\ Len(th[t].log) = 14
       /\ th[t].ret[2] = 2

\* C9: the second-order terms are chosen by the first-order TEMP, 2000 +
\* floor(dT * C6 / 2^23): all 0 from 2000 up; below 2000 they are
\* floor(dT^2 / 2^31), floor(61 (TEMP - 2000)^2 / 2^4) and 2 (TEMP - 2000)^2,
\* with 15 (TEMP + 1500)^2 and 8 (TEMP + 1500)^2 added exactly below -1500.
C9_SecondOrderByFirstOrderTemp ==
    \A t \in DOMAIN th :
       LET c == th[t].conv
           first == BigToInt(BigAdd(BigOf(2000),
                      BigFloorDivPow2(BigMul(BigOf(c.dT), BigOf(coeffs[6])), 23)))
           sq20 == BigSquare(BigOf(first - 2000))
           sq15 == BigSquare(BigOf(first + 1500))
           low == first < 2000
           verylow == first < -1500
           T2 == IF low THEN BigFloorDivPow2(BigSquare(BigOf(c.dT)), 31) ELSE BigZero
           OFF2 == IF ~low THEN BigZero
                   ELSE BigAdd(BigFloorDivPow2(BigMul(BigOf(61), sq20), 4),
                               IF verylow THEN BigMul(BigOf(15), sq15) ELSE BigZero)
           SENS2 == IF ~low THEN BigZero
                    ELSE BigAdd(BigMul(BigOf(2), sq20),
                                IF verylow THEN BigMul(BigOf(8), sq15) ELSE BigZero)
       IN  c # NoConv
           => /\ c.TEMP1 = first
              /\ c.T2 = T2
              /\ c.OFF2 = OFF2
              /\ c.SENS2 = SENS2
              /\ c.TEMP = first - BigToInt(T2)

C9_Witness ==
    \E t \in DOMAIN th :
       /\ th[t].op = "convert_raw_readings"
       /\ th[t].conv.TEMP1 = -1500
       /\ th[t].conv.TEMP = -2006
       /\ th[t].conv.OFF2 = BigOf(46703125)
       /\ th[t].conv.SENS2 = BigOf(24500000)

\* C10: read_raw_temperature called without osr converts at 4096: command
\* 0x58, then the 9.04 ms settle time.
C10_RawTemperatureDefault4096 ==
    \A t \in DOMAIN th :
       (th[t].op = "read_raw_temperature" /\ th[t].args = <<NoArg>>)
       => /\ th[t].tosr = 4096
          /\ Len(th[t].log) >= 1 => th[t].log[1] = <<"write", address, 88, 0>>
          /\ Len(th[t].log) >= 2 => th[t].log[2] = <<"sleep", 0, 0, 9040>>

====
